---- MODULE Spec2Model ----
(***************************************************************************)
(* Model of two units of qiskit-aqua:                                      *)
(*   - UnivariateVariationalDistribution (build, set_probabilities)        *)
(*   - SVMInput (__init__, to_params, from_params)                         *)
(* The external framework (variational form, initial state, quantum        *)
(* instance, numpy) is modelled by the values it hands back.               *)
(***************************************************************************)
EXTENDS Integers, Sequences, FiniteSets, TLC

VARIABLES
    num_qubits,            \* self._num_qubits
    params,                \* self.params
    initial_distribution,  \* self._initial_distribution
    probabilities,         \* self._probabilities
    qc,                    \* the caller's circuit handed to build
    call,                  \* the last call on the distribution: inputs and outcome
    instance,              \* the SVMInput built by the primary constructor
    svm_params,            \* the mapping returned by the last to_params
    svm_call               \* the last call on SVMInput: inputs and outcome

vars == <<num_qubits, params, initial_distribution, probabilities, qc, call,
          instance, svm_params, svm_call>>

dist_vars == <<num_qubits, params, initial_distribution, probabilities, qc, call>>

svm_vars == <<instance, svm_params, svm_call>>

----------------------------------------------------------------------------
(* Bounds of the model *)

\* largest number of shots of one execution: the total of a counts mapping
MaxShots == 4

----------------------------------------------------------------------------
(* Python values used by both units *)

None == "None"

RECURSIVE Pow2(_)
\* 2**n
Pow2(n) == IF n = 0 THEN 1 ELSE 2 * Pow2(n - 1)

\* the n-character strings over '0','1' (a string is the sequence of its characters)
BitStrings(n) == [1..n -> {0, 1}]

RECURSIVE StrLess(_, _)
\* Python's str.__lt__: lexicographic by character, a proper prefix first
StrLess(a, b) ==
    IF Len(b) = 0 THEN FALSE
    ELSE IF Len(a) = 0 THEN TRUE
    ELSE IF a[1] # b[1] THEN a[1] < b[1]
    ELSE StrLess(Tail(a), Tail(b))

\* a float count/total is kept as the pair <<count, total>>
FloatLess(x, y) == x[1] * y[2] < y[1] * x[2]

\* Python's tuple comparison of the (key, value) pairs that zip yields
PairLess(p, r) == StrLess(p[1], r[1]) \/ (p[1] = r[1] /\ FloatLess(p[2], r[2]))

RECURSIVE Insert(_, _)
\* p put before the first element greater than it
Insert(p, s) ==
    IF Len(s) = 0 THEN <<p>>
    ELSE IF PairLess(p, s[1]) THEN <<p>> \o s
    ELSE <<s[1]>> \o Insert(p, Tail(s))

RECURSIVE Sorted(_)
\* sorted(pairs): ascending in PairLess, equal pairs in their original order
Sorted(s) ==
    IF Len(s) = 0 THEN <<>>
    ELSE Insert(s[Len(s)], Sorted(SubSeq(s, 1, Len(s) - 1)))

RECURSIVE Sum(_)
\* np.sum of a list of integers
Sum(s) == IF Len(s) = 0 THEN 0 ELSE s[1] + Sum(Tail(s))

----------------------------------------------------------------------------
(* UnivariateVariationalDistribution *)

\* the qubit counts distributions are constructed with
QubitCounts == {1, 2}

\* parameter vectors handed to the variational form
ParamVectors == {"theta_a", "theta_b"}

\* registers a caller hands to build
Registers == {"q", "r"}

\* the initial-state component, when there is one
InitialStates == {None, "initial_state"}

\* circuits a caller holds before it calls build
CallerCircuits == {<<>>, <<[kind |-> "gate", register |-> "q", params |-> None]>>}

\* amplitudes of a statevector, as <<real, imaginary>>
Amplitudes == {<<0, 0>>, <<1, 0>>, <<0, 1>>}

\* Python truth of the optional component in `if self._initial_distribution`
Truthy(component) == component # None

\* self._initial_distribution.construct_circuit(mode='circuit', register=q)
InitialCircuit(q) == <<[kind |-> "initial_state", register |-> q, params |-> None]>>

\* self._var_form.construct_circuit(parameters, q)
VarFormCircuit(parameters, q) ==
    <<[kind |-> "var_form", register |-> q, params |-> parameters]>>

\* list(np.zeros(2**num_qubits))
Zeros(n) == [i \in 1..Pow2(n) |-> <<0, 1>>]

RECURSIVE Total(_, _)
\* the number of shots a counts mapping records, over the keys ks
Total(counts, ks) ==
    IF ks = {} THEN 0
    ELSE LET k == CHOOSE x \in ks : TRUE
         IN  counts[k] + Total(counts, ks \ {k})

\* the counts mappings result.get_counts may return for n measured qubits:
\* the bit-strings observed in 1..MaxShots shots, each with how often it was
\* seen (at least once); unobserved bit-strings are not keys
CountsMappings(n) ==
    {m \in UNION {[ks -> 1..MaxShots] : ks \in (SUBSET BitStrings(n)) \ {{}}} :
        Total(m, DOMAIN m) <= MaxShots}

\* the insertion orders a dict with these keys can have
Orderings(ks) ==
    {o \in [1..Cardinality(ks) -> ks] : \A i, j \in DOMAIN o : i # j => o[i] # o[j]}

\* the statevectors result.get_statevector may return for n qubits
Statevectors(n) == [1..Pow2(n) -> Amplitudes]

\* np.conj
Conj(a) == <<a[1], 0 - a[2]>>

\* np.multiply on two complex numbers
Multiply(a, b) == <<a[1] * b[1] - a[2] * b[2], a[1] * b[2] + a[2] * b[1]>>

\* lines 112-114: squared magnitudes of the statevector
StatevectorValues(result) ==
    LET values == [i \in 1..Len(result) |-> Multiply(result[i], Conj(result[i]))]
    IN  [i \in 1..Len(values) |-> <<values[i][1], 1>>]

\* SamplingValues without the re-sort by bit-string: values stay in insertion order
SamplingValuesUnsorted(result, order) ==
    LET values == [i \in 1..Len(order) |-> result[order[i]]]
    IN  [i \in 1..Len(values) |-> <<values[i], Sum(values)>>]

\* lines 116-120: result is the counts mapping, order its insertion order
SamplingValues(result, order) ==
    LET keys == order
        values == [i \in 1..Len(order) |-> result[order[i]]]
        normalized == [i \in 1..Len(values) |-> <<values[i], Sum(values)>>]
        zipped == [i \in 1..Len(keys) |-> <<keys[i], normalized[i]>>]
        sorted == Sorted(zipped)
    IN  [i \in 1..Len(sorted) |-> sorted[i][2]]

\* lines 95-109: the circuit handed to quantum_instance.execute
ExecutedCircuit(is_statevector) ==
    LET q_ == "q"
        qc_ == IF Truthy(initial_distribution) THEN InitialCircuit(q_) ELSE <<>>
        with_var_form == qc_ \o VarFormCircuit(params, q_)
    IN  IF is_statevector THEN with_var_form
        ELSE with_var_form \o <<[kind |-> "measure", register |-> q_, params |-> None]>>

\* where a collaborator can raise inside set_probabilities
RaisePoints == {"construct_circuit", "execute", "get_result"}

DistInit ==
    /\ num_qubits \in QubitCounts
    /\ params \in ParamVectors
    /\ initial_distribution \in InitialStates
    /\ probabilities = Zeros(num_qubits)
    /\ qc = <<>>
    /\ call = [op |-> "__init__"]

\* build appending the variational form before the initial state
BuildVarFormFirst(circuit, q, q_ancillas, override) ==
    /\ qc' = circuit \o VarFormCircuit(params, q)
              \o (IF Truthy(initial_distribution) THEN InitialCircuit(q) ELSE <<>>)
    /\ call' = [op |-> "build", qc |-> circuit, q |-> q, q_ancillas |-> q_ancillas,
                params |-> override]
    /\ UNCHANGED <<num_qubits, params, initial_distribution, probabilities>>

\* build(qc, q, q_ancillas, params) on the caller's circuit
Build(circuit, q, q_ancillas, override) ==
    /\ qc' = (IF Truthy(initial_distribution) THEN circuit \o InitialCircuit(q)
                                              ELSE circuit)
              \o VarFormCircuit(params, q)
    /\ call' = [op |-> "build", qc |-> circuit, q |-> q, q_ancillas |-> q_ancillas,
                params |-> override]
    /\ UNCHANGED <<num_qubits, params, initial_distribution, probabilities>>

\* set_probabilities clearing the stored vector before it executes the circuit
SetProbabilitiesEager(is_statevector, raised, result, order) ==
    /\ probabilities' =
          IF raised = "construct_circuit" THEN probabilities
          ELSE IF raised # None THEN <<>>
          ELSE IF is_statevector THEN StatevectorValues(result)
          ELSE SamplingValues(result, order)
    /\ call' = [op |-> "set_probabilities", is_statevector |-> is_statevector,
                circuit |-> IF raised = "construct_circuit" THEN <<>>
                            ELSE ExecutedCircuit(is_statevector),
                executes |-> IF raised = "construct_circuit" THEN 0 ELSE 1,
                raised |-> raised,
                result |-> IF raised # None THEN <<>> ELSE result]
    /\ UNCHANGED <<num_qubits, params, initial_distribution, qc>>

\* set_probabilities(quantum_instance); raised is None or the point where a
\* collaborator raises (nothing catches it), result what the execution yields,
\* executes how often quantum_instance.execute was called
SetProbabilities(is_statevector, raised, result, order) ==
    /\ probabilities' =
          IF raised # None THEN probabilities
          ELSE IF is_statevector THEN StatevectorValues(result)
          ELSE SamplingValues(result, order)
    /\ call' = [op |-> "set_probabilities", is_statevector |-> is_statevector,
                circuit |-> IF raised = "construct_circuit" THEN <<>>
                            ELSE ExecutedCircuit(is_statevector),
                executes |-> IF raised = "construct_circuit" THEN 0 ELSE 1,
                raised |-> raised,
                result |-> IF raised # None THEN <<>> ELSE result]
    /\ UNCHANGED <<num_qubits, params, initial_distribution, qc>>

BuildCall ==
    \E circuit \in CallerCircuits, q \in Registers, q_ancillas \in {None, "a"},
       override \in ParamVectors \cup {None} :
        Build(circuit, q, q_ancillas, override)

SetProbabilitiesRaises ==
    \E is_statevector \in BOOLEAN, raised \in RaisePoints :
        SetProbabilities(is_statevector, raised, <<>>, <<>>)

SetProbabilitiesStatevector ==
    \E result \in Statevectors(num_qubits) :
        SetProbabilities(TRUE, None, result, <<>>)

SetProbabilitiesSampling ==
    \E result \in CountsMappings(num_qubits) :
        \E order \in Orderings(DOMAIN result) :
            SetProbabilities(FALSE, None, result, order)

----------------------------------------------------------------------------
(* SVMInput *)

\* Python values: the type and the items held (keys of a dict, elements of a
\* list or of a numpy array)
PyNone == [type |-> "NoneType", items |-> <<>>]

Dict(items) == [type |-> "dict", items |-> items]

List(items) == [type |-> "list", items |-> items]

NdArray(items) == [type |-> "ndarray", items |-> items]

\* an argument the caller leaves out
Absent == [type |-> "absent", items |-> <<>>]

\* no object: what a call that raises hands back
NoInstance == [type |-> "no instance", items |-> <<>>]

NoParams == [type |-> "no params", items |-> <<>>]

TrainingInputs == {PyNone, Dict(<<1>>)}

TestInputs == {PyNone, Dict(<<>>), Dict(<<1>>)}

DatapointInputs ==
    {PyNone, List(<<>>), List(<<1>>), NdArray(<<>>), NdArray(<<0>>), NdArray(<<1>>),
     NdArray(<<1, 2>>)}

ParamKeys == {"training_dataset", "test_dataset", "datapoints"}

\* the values a caller puts under a key of a params mapping
KeyInputs(k) ==
    IF k = "training_dataset" THEN TrainingInputs
    ELSE IF k = "test_dataset" THEN TestInputs
    ELSE DatapointInputs

\* the params mappings a caller hands to from_params
ParamMappings ==
    UNION {{m \in [keys -> TrainingInputs \cup TestInputs \cup DatapointInputs] :
              \A k \in keys : m[k] \in KeyInputs(k)} : keys \in SUBSET ParamKeys}

\* bool(x) as `or` evaluates it: "True", "False", or "ValueError" for a numpy
\* array of more than one element, whose truth value numpy refuses to give
Truth(x) ==
    IF x.type = "NoneType" THEN "False"
    ELSE IF x.type = "ndarray" THEN
        IF Len(x.items) = 0 THEN "False"
        ELSE IF Len(x.items) = 1 THEN (IF x.items[1] # 0 THEN "True" ELSE "False")
        ELSE "ValueError"
    ELSE IF Len(x.items) = 0 THEN "False" ELSE "True"

\* x or default
Or(x, default) == IF Truth(x) = "True" THEN x ELSE default

\* the value a parameter of __init__ is bound to: its default None when left out
Bound(argument) == IF argument = Absent THEN PyNone ELSE argument

\* SVMInput.__init__: the error raised (None when none) and the object built
SVMInputInit(training_dataset, test_dataset, datapoints) ==
    IF Truth(test_dataset) = "ValueError" \/ Truth(datapoints) = "ValueError"
    THEN [raised |-> "ValueError", returned |-> NoInstance]
    ELSE [raised |-> None,
          returned |-> [training_dataset |-> training_dataset,
                        test_dataset |-> Or(test_dataset, Dict(<<>>)),
                        datapoints |-> Or(datapoints, NdArray(<<>>))]]

\* SVMInput.to_params
ToParams(self) ==
    [k \in {"training_dataset", "test_dataset", "datapoints"} |->
        IF k = "training_dataset" THEN self.training_dataset
        ELSE IF k = "test_dataset" THEN self.test_dataset
        ELSE self.datapoints]

\* from_params handing only the training set on to the constructor
FromParamsTrainingOnly(mapping) ==
    IF "training_dataset" \notin DOMAIN mapping
    THEN [raised |-> "AlgorithmError", returned |-> NoInstance]
    ELSE IF "test_dataset" \notin DOMAIN mapping \/ "datapoints" \notin DOMAIN mapping
    THEN [raised |-> "KeyError", returned |-> NoInstance]
    ELSE SVMInputInit(mapping["training_dataset"], PyNone, PyNone)

\* from_params reading the training set with params.get and no check
FromParamsGet(mapping) ==
    IF "test_dataset" \notin DOMAIN mapping \/ "datapoints" \notin DOMAIN mapping
    THEN [raised |-> "KeyError", returned |-> NoInstance]
    ELSE SVMInputInit(IF "training_dataset" \in DOMAIN mapping
                      THEN mapping["training_dataset"] ELSE PyNone,
                      mapping["test_dataset"], mapping["datapoints"])

\* from_params reading the optional keys with params.get
FromParamsDefaulting(mapping) ==
    IF "training_dataset" \notin DOMAIN mapping
    THEN [raised |-> "AlgorithmError", returned |-> NoInstance]
    ELSE SVMInputInit(mapping["training_dataset"],
                      IF "test_dataset" \in DOMAIN mapping
                      THEN mapping["test_dataset"] ELSE PyNone,
                      IF "datapoints" \in DOMAIN mapping
                      THEN mapping["datapoints"] ELSE PyNone)

\* SVMInput.from_params
FromParams(mapping) ==
    IF "training_dataset" \notin DOMAIN mapping
    THEN [raised |-> "AlgorithmError", returned |-> NoInstance]
    ELSE IF "test_dataset" \notin DOMAIN mapping \/ "datapoints" \notin DOMAIN mapping
    THEN [raised |-> "KeyError", returned |-> NoInstance]
    ELSE SVMInputInit(mapping["training_dataset"], mapping["test_dataset"],
                      mapping["datapoints"])

SVMInit ==
    /\ instance = NoInstance
    /\ svm_params = NoParams
    /\ svm_call = [op |-> "none"]

\* the caller builds an instance with the primary constructor
Construct(training_dataset, test_dataset, datapoints) ==
    LET done == SVMInputInit(Bound(training_dataset), Bound(test_dataset),
                             Bound(datapoints))
    IN  /\ svm_call' = [op |-> "__init__", training_dataset |-> training_dataset,
                        test_dataset |-> test_dataset, datapoints |-> datapoints,
                        raised |-> done.raised, returned |-> done.returned]
        /\ instance' = IF done.raised = None THEN done.returned ELSE instance
        /\ svm_params' = IF done.raised = None THEN NoParams ELSE svm_params

\* the caller serialises the instance it holds
CallToParams ==
    /\ instance # NoInstance
    /\ svm_params' = ToParams(instance)
    /\ svm_call' = [op |-> "to_params", raised |-> None, returned |-> ToParams(instance)]
    /\ UNCHANGED instance

\* the caller rebuilds an instance from a mapping
CallFromParams(mapping) ==
    LET done == FromParams(mapping)
    IN  /\ svm_call' = [op |-> "from_params", params |-> mapping,
                        raised |-> done.raised, returned |-> done.returned]
        /\ UNCHANGED <<instance, svm_params>>

ConstructCall ==
    \E training_dataset \in TrainingInputs,
       test_dataset \in TestInputs \cup {Absent},
       datapoints \in DatapointInputs \cup {Absent} :
        Construct(training_dataset, test_dataset, datapoints)

FromParamsCall == \E mapping \in ParamMappings : CallFromParams(mapping)

RoundTripCall == svm_params # NoParams /\ CallFromParams(svm_params)

----------------------------------------------------------------------------
(* Specifications *)

Init == DistInit /\ SVMInit

\* set_probabilities called again and again on one distribution
Next ==
    \/ SetProbabilitiesRaises /\ UNCHANGED svm_vars
    \/ SetProbabilitiesStatevector /\ UNCHANGED svm_vars
    \/ SetProbabilitiesSampling /\ UNCHANGED svm_vars

Spec == Init /\ [][Next]_vars

\* build called again and again on one distribution
NextBuild == BuildCall /\ UNCHANGED svm_vars

SpecBuild == Init /\ [][NextBuild]_vars

\* the SVMInput calls of one caller
NextSVM ==
    \/ ConstructCall /\ UNCHANGED dist_vars
    \/ CallToParams /\ UNCHANGED dist_vars
    \/ FromParamsCall /\ UNCHANGED dist_vars
    \/ RoundTripCall /\ UNCHANGED dist_vars

InitSVM == Init /\ num_qubits = 1 /\ params = "theta_a" /\ initial_distribution = None

SpecSVM == InitSVM /\ [][NextSVM]_vars

----------------------------------------------------------------------------
(* Properties of UnivariateVariationalDistribution *)

RECURSIVE BasisIndex(_)
\* the index of the basis state a bit-string names in a statevector: int(key, 2)
BasisIndex(key) ==
    IF Len(key) = 0 THEN 0
    ELSE 2 * BasisIndex(SubSeq(key, 1, Len(key) - 1)) + key[Len(key)]

\* the last call was a set_probabilities in sampling mode that returned
SampledOk ==
    /\ call.op = "set_probabilities"
    /\ call.raised = None
    /\ ~call.is_statevector

\* C1: the stored probabilities vector has length 2^num_qubits in every
\* reachable state, whatever counts mapping the execution returned
C1_LengthIsTwoToTheN == Len(probabilities) = Pow2(num_qubits)

\* C2: build constructs the variational-form fragment from the stored params
\* when no override is given and from the params argument when one is given
C2_OverrideParameterizes ==
    call.op = "build" =>
        /\ qc[Len(qc)].kind = "var_form"
        /\ qc[Len(qc)].params = (IF call.params = None THEN params ELSE call.params)

\* C5: in sampling mode, after set_probabilities, entry i of the vector is
\* count/total of the bit-string that encodes i (0 for an unobserved one)
C5_IndexIsBasisState ==
    SampledOk =>
        \A key \in BitStrings(num_qubits) :
            /\ BasisIndex(key) + 1 \in DOMAIN probabilities
            /\ probabilities[BasisIndex(key) + 1] =
                  <<IF key \in DOMAIN call.result THEN call.result[key] ELSE 0,
                    Total(call.result, DOMAIN call.result)>>

\* C6: build appends, after what the caller's circuit held, the initial-state
\* fragment first and the variational-form fragment second, both on the given
\* register, and only the variational-form fragment when there is no component
C6_InitialBeforeVarForm ==
    call.op = "build" =>
        LET before == call.qc
            added == SubSeq(qc, Len(before) + 1, Len(qc))
        IN  /\ Len(qc) >= Len(before)
            /\ SubSeq(qc, 1, Len(before)) = before
            /\ \A i \in DOMAIN added : added[i].register = call.q
            /\ IF initial_distribution # None
               THEN /\ Len(added) = 2
                    /\ added[1].kind = "initial_state"
                    /\ added[2].kind = "var_form"
               ELSE /\ Len(added) = 1
                    /\ added[1].kind = "var_form"

\* a build with a component, on a circuit that already held a gate
C6_Witness ==
    /\ call.op = "build"
    /\ initial_distribution # None
    /\ Len(call.qc) = 1
    /\ call.q = "r"
    /\ Len(qc) = 3

\* C8: in sampling mode with a positive total, the entries are count/total
\* and sum to 1, and every insertion order of the mapping gives this vector
C8_SumsToOneAnyOrder ==
    SampledOk =>
        LET total == Total(call.result, DOMAIN call.result)
        IN  /\ total > 0 =>
                  /\ \A i \in DOMAIN probabilities : probabilities[i][2] = total
                  /\ Sum([i \in DOMAIN probabilities |-> probabilities[i][1]]) = total
            /\ \A order \in Orderings(DOMAIN call.result) :
                  SamplingValues(call.result, order) = probabilities

\* three bit-strings with different counts were returned
C8_Witness ==
    /\ SampledOk
    /\ num_qubits = 2
    /\ DOMAIN call.result = {<<1, 1>>, <<0, 1>>, <<1, 0>>}
    /\ call.result[<<0, 1>>] = 2
    /\ probabilities = <<<<2, 4>>, <<1, 4>>, <<1, 4>>>>

\* C9: a set_probabilities that raises executes the circuit at most once and
\* leaves the stored vector as it was, and the vector changes only in one step
\* of a returning set_probabilities, to the whole vector computed from the
\* execution's result
C9_WholeOrUntouched ==
    [][/\ (call'.op = "set_probabilities" /\ call'.raised # None)
            => (probabilities' = probabilities /\ call'.executes <= 1)
       /\ probabilities' # probabilities =>
            /\ call'.op = "set_probabilities"
            /\ call'.raised = None
            /\ IF call'.is_statevector
               THEN probabilities' = StatevectorValues(call'.result)
               ELSE \E order \in Orderings(DOMAIN call'.result) :
                        probabilities' = SamplingValues(call'.result, order)]_vars

\* a call raised in execute after an earlier call had stored a vector
C9_Witness ==
    /\ call.op = "set_probabilities"
    /\ call.raised = "execute"
    /\ probabilities # Zeros(num_qubits)

----------------------------------------------------------------------------
(* Properties of SVMInput *)

\* C3: from_params(instance.to_params()) returns an instance whose three
\* fields equal those of the instance built by the primary constructor
C3_RoundTrip ==
    (svm_call.op = "from_params" /\ svm_params # NoParams
        /\ svm_call.params = svm_params) =>
        /\ svm_call.raised = None
        /\ svm_call.returned # NoInstance
        /\ svm_call.returned.training_dataset = instance.training_dataset
        /\ svm_call.returned.test_dataset = instance.test_dataset
        /\ svm_call.returned.datapoints = instance.datapoints

\* a round trip of an instance whose optional fields were defaulted
C3_Witness ==
    /\ svm_call.op = "from_params"
    /\ svm_params # NoParams
    /\ svm_call.params = svm_params
    /\ instance.test_dataset = Dict(<<>>)
    /\ instance.datapoints = NdArray(<<>>)
    /\ svm_call.returned # NoInstance

\* C4: from_params raises AlgorithmError and returns no instance for every
\* mapping without the key training_dataset
C4_MissingTrainingRaises ==
    (svm_call.op = "from_params" /\ "training_dataset" \notin DOMAIN svm_call.params) =>
        /\ svm_call.raised = "AlgorithmError"
        /\ svm_call.returned = NoInstance

\* from_params on a mapping with only test_dataset and datapoints
C4_Witness ==
    /\ svm_call.op = "from_params"
    /\ DOMAIN svm_call.params = {"test_dataset", "datapoints"}
    /\ svm_call.raised = "AlgorithmError"

\* C7: the primary constructor stores training_dataset as given, an empty
\* mapping and an empty sequence for an absent or falsy test_dataset and
\* datapoints, and a non-falsy test_dataset or datapoints unchanged
C7_ConstructorStores ==
    svm_call.op = "__init__" =>
        /\ svm_call.returned # NoInstance
        /\ svm_call.returned.training_dataset = svm_call.training_dataset
        /\ svm_call.returned.test_dataset =
              (IF svm_call.test_dataset = Absent \/ Truth(svm_call.test_dataset) = "False"
               THEN Dict(<<>>) ELSE svm_call.test_dataset)
        /\ svm_call.returned.datapoints =
              (IF svm_call.datapoints = Absent \/ Truth(svm_call.datapoints) = "False"
               THEN NdArray(<<>>) ELSE svm_call.datapoints)

\* C10: from_params on a mapping that has training_dataset but lacks
\* test_dataset or datapoints raises an error other than AlgorithmError and
\* returns no instance, where the constructor with both left out returns one;
\* from_params returns an instance only when all three keys are present
C10_NoDefaultingInFromParams ==
    /\ svm_call.op = "from_params" =>
          /\ ("training_dataset" \in DOMAIN svm_call.params
                /\ ~({"test_dataset", "datapoints"} \subseteq DOMAIN svm_call.params)) =>
                /\ svm_call.raised \notin {None, "AlgorithmError"}
                /\ svm_call.returned = NoInstance
          /\ svm_call.returned # NoInstance =>
                {"training_dataset", "test_dataset", "datapoints"}
                    \subseteq DOMAIN svm_call.params
    /\ (svm_call.op = "__init__" /\ svm_call.test_dataset = Absent
          /\ svm_call.datapoints = Absent) =>
          svm_call.returned # NoInstance

\* from_params on a mapping with only training_dataset
C10_Witness ==
    /\ svm_call.op = "from_params"
    /\ DOMAIN svm_call.params = {"training_dataset"}
    /\ svm_call.raised = "KeyError"
    /\ svm_call.returned = NoInstance

====
